---- MODULE Spec2Model ----
(***************************************************************************)
(* Model of aos::common::utils (src/src/utils/time.cpp):                   *)
(*   ParseDuration  - three duration grammars behind one dispatch point    *)
(*   FromUTCString  - strptime + mktime                                    *)
(*   ToUTCString    - localtime_r + timegm + gmtime_r + strftime           *)
(*                                                                         *)
(* Strings are sequences of bytes; a byte is written as a one-character    *)
(* string, the two bytes of the UTF-8 micro sign as "xC2" and "xB5".       *)
(* Durations are signed 64-bit nanosecond counts.  They are kept as exact  *)
(* integers in base 1000 (least significant limb first) together with a    *)
(* flag that records that some intermediate result left the 64-bit range.  *)
(***************************************************************************)
EXTENDS Integers, Sequences, FiniteSets, TLC

VARIABLES
    op,       \* the public function called last ("none" before any call)
    input,    \* ParseDuration: the argument durationStr
    result,   \* ParseDuration: what the call produced
    tz,       \* the process's time zone configuration (TZ)
    time,     \* a Time value: seconds since the epoch
    utcStr,   \* a timestamp string
    tsErr,    \* error of the last timestamp call
    origin,   \* the value the timestamp scenario started from
    calls     \* the timestamp calls made so far, in order

vars == <<op, input, result, tz, time, utcStr, tsErr, origin, calls>>

(***************************************************************************)
(* Exact non-negative integers, base 1000, least significant limb first,   *)
(* without leading zero limbs (zero is the empty sequence).                *)
(***************************************************************************)
RECURSIVE NatNorm(_)
NatNorm(a) ==
    IF a = <<>> THEN <<>>
    ELSE IF a[Len(a)] = 0 THEN NatNorm(SubSeq(a, 1, Len(a) - 1))
    ELSE a

RECURSIVE NatAddC(_, _, _)
NatAddC(a, b, carry) ==
    IF a = <<>> /\ b = <<>> THEN (IF carry = 0 THEN <<>> ELSE <<carry>>)
    ELSE LET x == IF a = <<>> THEN 0 ELSE a[1]
             y == IF b = <<>> THEN 0 ELSE b[1]
             s == x + y + carry
         IN  <<s % 1000>> \o NatAddC(IF a = <<>> THEN <<>> ELSE Tail(a),
                                     IF b = <<>> THEN <<>> ELSE Tail(b),
                                     s \div 1000)

NatAdd(a, b) == NatAddC(a, b, 0)

\* a * k for one limb k (0 <= k < 1000)
RECURSIVE NatMulLimbC(_, _, _)
NatMulLimbC(a, k, carry) ==
    IF a = <<>> THEN (IF carry = 0 THEN <<>> ELSE <<carry>>)
    ELSE LET p == a[1] * k + carry
         IN  <<p % 1000>> \o NatMulLimbC(Tail(a), k, p \div 1000)

NatMulLimb(a, k) == NatNorm(NatMulLimbC(a, k, 0))

RECURSIVE NatMul(_, _)
NatMul(a, b) ==
    IF b = <<>> \/ a = <<>> THEN <<>>
    ELSE LET rest == NatMul(a, Tail(b))
         IN  NatAdd(NatMulLimb(a, b[1]),
                    IF rest = <<>> THEN <<>> ELSE <<0>> \o rest)

\* a - b for a >= b
RECURSIVE NatSubB(_, _, _)
NatSubB(a, b, borrow) ==
    IF a = <<>> THEN <<>>
    ELSE LET y == IF b = <<>> THEN 0 ELSE b[1]
             d == a[1] - y - borrow
         IN  <<IF d < 0 THEN d + 1000 ELSE d>>
             \o NatSubB(Tail(a), IF b = <<>> THEN <<>> ELSE Tail(b),
                        IF d < 0 THEN 1 ELSE 0)

NatSub(a, b) == NatNorm(NatSubB(a, b, 0))

RECURSIVE NatLessFrom(_, _, _)
NatLessFrom(a, b, i) ==
    IF i = 0 THEN FALSE
    ELSE IF a[i] # b[i] THEN a[i] < b[i]
    ELSE NatLessFrom(a, b, i - 1)

NatLess(a, b) ==
    IF Len(a) # Len(b) THEN Len(a) < Len(b) ELSE NatLessFrom(a, b, Len(a))

NatLeq(a, b) == a = b \/ NatLess(a, b)

\* a small non-negative machine integer as an exact integer
RECURSIVE NatOf(_)
NatOf(n) == IF n = 0 THEN <<>> ELSE <<n % 1000>> \o NatOf(n \div 1000)

(***************************************************************************)
(* Bytes and decimal digit strings.                                        *)
(***************************************************************************)
Digits == {"0", "1", "2", "3", "4", "5", "6", "7", "8", "9"}

DigitVal(c) ==
    CASE c = "0" -> 0 [] c = "1" -> 1 [] c = "2" -> 2 [] c = "3" -> 3
      [] c = "4" -> 4 [] c = "5" -> 5 [] c = "6" -> 6 [] c = "7" -> 7
      [] c = "8" -> 8 [] c = "9" -> 9

DigitChar(n) == <<"0", "1", "2", "3", "4", "5", "6", "7", "8", "9">>[n + 1]

IsDigit(c) == c \in Digits

\* the value of a string of decimal digits, most significant first
DigitsValue(ds) ==
    LET At(p) == IF p >= 1 THEN DigitVal(ds[p]) ELSE 0
    IN  NatNorm([i \in 1..((Len(ds) + 2) \div 3) |->
                    100 * At(Len(ds) - 3 * i + 1) + 10 * At(Len(ds) - 3 * i + 2)
                    + At(Len(ds) - 3 * i + 3)])

\* s starts with p at position i (1-based)
HasPrefixAt(s, i, p) ==
    /\ i + Len(p) - 1 <= Len(s)
    /\ \A k \in 1..Len(p) : s[i + k - 1] = p[k]

\* one past the end of the maximal run of digits that starts at i
RECURSIVE DigitRunEnd(_, _)
DigitRunEnd(s, i) ==
    IF i <= Len(s) /\ IsDigit(s[i]) THEN DigitRunEnd(s, i + 1) ELSE i

RECURSIVE Concat(_)
Concat(ss) == IF ss = <<>> THEN <<>> ELSE Head(ss) \o Concat(Tail(ss))

(***************************************************************************)
(* Duration: exact value, sign, and whether the 64-bit range was left.     *)
(***************************************************************************)
Int64Max == <<807, 775, 854, 36, 372, 223, 9>>     \* 2^63 - 1
Int64MinMag == <<808, 775, 854, 36, 372, 223, 9>>  \* 2^63
IntMax == <<647, 483, 147, 2>>                     \* 2^31 - 1
IntMinMag == <<648, 483, 147, 2>>                  \* 2^31

FitsInt64(neg, mag) ==
    IF neg THEN NatLeq(mag, Int64MinMag) ELSE NatLeq(mag, Int64Max)

Dur(neg, mag, overflowed) ==
    [neg |-> neg /\ mag # <<>>, mag |-> mag,
     overflowed |-> overflowed \/ ~FitsInt64(neg /\ mag # <<>>, mag)]

ZeroDuration == Dur(FALSE, <<>>, FALSE)

\* Duration + Duration
DurAdd(a, b) ==
    IF a.neg = b.neg
    THEN Dur(a.neg, NatAdd(a.mag, b.mag), a.overflowed \/ b.overflowed)
    ELSE IF NatLeq(b.mag, a.mag)
    THEN Dur(a.neg, NatSub(a.mag, b.mag), a.overflowed \/ b.overflowed)
    ELSE Dur(b.neg, NatSub(b.mag, a.mag), a.overflowed \/ b.overflowed)

\* -Duration
DurNeg(a) == Dur(~a.neg, a.mag, a.overflowed)

\* Duration * integer, the integer given by sign and magnitude
DurMul(a, nNeg, nMag) ==
    Dur(a.neg # nNeg, NatMul(a.mag, nMag), a.overflowed)

cNanoseconds == Dur(FALSE, NatOf(1), FALSE)
cMicroseconds == DurMul(cNanoseconds, FALSE, NatOf(1000))
cMilliseconds == DurMul(cMicroseconds, FALSE, NatOf(1000))
cSeconds == DurMul(cMilliseconds, FALSE, NatOf(1000))
cMinutes == DurMul(cSeconds, FALSE, NatOf(60))
cHours == DurMul(cMinutes, FALSE, NatOf(60))
cDay == DurMul(cHours, FALSE, NatOf(24))
cWeek == DurMul(cDay, FALSE, NatOf(7))
cMonth == DurMul(cDay, FALSE, NatOf(30))
cYear == DurMul(cDay, FALSE, NatOf(365))

(***************************************************************************)
(* What a call produces.  RetWithError<T> carries a value and an error;    *)
(* a C++ exception leaves the function without producing either.           *)
(***************************************************************************)
NoResult == [kind |-> "none", dur |-> ZeroDuration, err |-> "eNone", what |-> ""]

Value(d) == [kind |-> "value", dur |-> d, err |-> "eNone", what |-> ""]

Error(e, msg) == [kind |-> "error", dur |-> ZeroDuration, err |-> e, what |-> msg]

Exception(type) ==
    [kind |-> "exception", dur |-> ZeroDuration, err |-> "eNone", what |-> type]

(***************************************************************************)
(* ParseStringDuration                                                     *)
(***************************************************************************)
\* the alternation written with the one-letter units first, (s|m|h|d|w|y|
\* ns|us|µs|ms) (a faulty variant, against which C14 is tested)
UnitAlternativesShortFirst ==
    << <<"s">>, <<"m">>, <<"h">>, <<"d">>, <<"w">>, <<"y">>, <<"n", "s">>,
       <<"u", "s">>, <<"xC2", "xB5", "s">>, <<"m", "s">> >>

\* the alternation (ns|us|µs|ms|s|m|h|d|w|y), in the order it is written
UnitAlternatives ==
    << <<"n", "s">>, <<"u", "s">>, <<"xC2", "xB5", "s">>, <<"m", "s">>,
       <<"s">>, <<"m">>, <<"h">>, <<"d">>, <<"w">>, <<"y">> >>

\* the keys of the static map `units`
UnitKeys == {UnitAlternatives[i] : i \in 1..Len(UnitAlternatives)}

\* one table for both grammars, in which the letter m is the month (a faulty
\* variant, against which C13 is tested)
unitsWithMonth(unit) ==
    CASE unit = <<"n", "s">> -> cNanoseconds
      [] unit = <<"u", "s">> -> cMicroseconds
      [] unit = <<"xC2", "xB5", "s">> -> cMicroseconds
      [] unit = <<"m", "s">> -> cMilliseconds
      [] unit = <<"s">> -> cSeconds
      [] unit = <<"m">> -> cMonth
      [] unit = <<"h">> -> cHours
      [] unit = <<"d">> -> cDay
      [] unit = <<"w">> -> cWeek
      [] unit = <<"y">> -> cYear

\* units.at(unit) for a key of the map
units(unit) ==
    CASE unit = <<"n", "s">> -> cNanoseconds
      [] unit = <<"u", "s">> -> cMicroseconds
      [] unit = <<"xC2", "xB5", "s">> -> cMicroseconds
      [] unit = <<"m", "s">> -> cMilliseconds
      [] unit = <<"s">> -> cSeconds
      [] unit = <<"m">> -> cMinutes
      [] unit = <<"h">> -> cHours
      [] unit = <<"d">> -> cDay
      [] unit = <<"w">> -> cWeek
      [] unit = <<"y">> -> cYear

UpperCaseLetters ==
    <<"A", "B", "C", "D", "E", "F", "G", "H", "I", "J", "K", "L", "M",
      "N", "O", "P", "Q", "R", "S", "T", "U", "V", "W", "X", "Y", "Z">>

LowerCaseLetters ==
    <<"a", "b", "c", "d", "e", "f", "g", "h", "i", "j", "k", "l", "m",
      "n", "o", "p", "q", "r", "s", "t", "u", "v", "w", "x", "y", "z">>

\* ::tolower on one byte (C locale)
tolower(c) ==
    IF \E i \in 1..26 : UpperCaseLetters[i] = c
    THEN LowerCaseLetters[CHOOSE i \in 1..26 : UpperCaseLetters[i] = c]
    ELSE c

\* std::transform(unit.begin(), unit.end(), unit.begin(), ::tolower)
ToLowerString(str) == [i \in 1..Len(str) |-> tolower(str[i])]

\* the first alternative of the unit group that matches at position q, or <<>>
RECURSIVE FirstUnitFrom(_, _, _)
FirstUnitFrom(s, q, k) ==
    IF k > Len(UnitAlternatives) THEN <<>>
    ELSE IF HasPrefixAt(s, q, UnitAlternatives[k]) THEN UnitAlternatives[k]
    ELSE FirstUnitFrom(s, q, k + 1)

FirstUnitAt(s, q) == FirstUnitFrom(s, q, 1)

\* regex_search of componentPattern (\d+)(unit) from position `from`: the
\* leftmost match, \d+ greedy, the first alternative that matches.  A shorter
\* run of digits is followed by a digit, where no unit matches.
RECURSIVE NextComponent(_, _)
NextComponent(s, from) ==
    IF from > Len(s) THEN [found |-> FALSE, number |-> <<>>, unit |-> <<>>, end |-> from]
    ELSE IF IsDigit(s[from]) /\ FirstUnitAt(s, DigitRunEnd(s, from)) # <<>>
    THEN LET q == DigitRunEnd(s, from)
             u == FirstUnitAt(s, q)
         IN  [found |-> TRUE, number |-> SubSeq(s, from, q - 1), unit |-> u,
              end |-> q + Len(u)]
    ELSE NextComponent(s, from + 1)

\* std::stoll of a string of digits: the value, or std::out_of_range
StollFits(ds) == NatLeq(DigitsValue(ds), Int64Max)

\* the loop over std::sregex_iterator, from position `from` with the sum so far
RECURSIVE ComponentLoop(_, _, _)
ComponentLoop(s, from, totalDuration) ==
    LET match == NextComponent(s, from)
        unit == ToLowerString(match.unit)
    IN  IF ~match.found THEN Value(totalDuration)
        ELSE IF unit \notin UnitKeys THEN Exception("std::out_of_range")
        ELSE IF ~StollFits(match.number) THEN Exception("std::out_of_range")
        ELSE ComponentLoop(s, match.end,
                 DurAdd(totalDuration,
                        DurMul(units(unit), FALSE, DigitsValue(match.number))))

ParseStringDuration(durationStr) == ComponentLoop(durationStr, 1, ZeroDuration)

\* the sequence of matches the iterator yields (number and unit of each)
RECURSIVE Components(_, _)
Components(s, from) ==
    LET match == NextComponent(s, from)
    IN  IF ~match.found THEN <<>>
        ELSE <<[number |-> match.number, unit |-> match.unit]>>
             \o Components(s, match.end)

(***************************************************************************)
(* ParseISO8601DurationPeriod / Time / ParseISO8601Duration                *)
(***************************************************************************)
\* (?:(\d+)X)? at position i: the capture if the component is there.  The
\* group is greedy, and skipping a component that is present leaves a digit
\* where every later component and the end of the pattern fail.
OptionalComponent(s, i, letter) ==
    LET q == DigitRunEnd(s, i)
    IN  IF q > i /\ q <= Len(s) /\ s[q] = letter
        THEN [matched |-> TRUE, str |-> SubSeq(s, i, q - 1), next |-> q + 1]
        ELSE [matched |-> FALSE, str |-> <<>>, next |-> i]

\* the optional components for `letters`, in order, from position i
RECURSIVE ComponentChain(_, _, _)
ComponentChain(s, i, letters) ==
    IF letters = <<>> THEN [captures |-> <<>>, next |-> i]
    ELSE LET c == OptionalComponent(s, i, Head(letters))
             rest == ComponentChain(s, c.next, Tail(letters))
         IN  [captures |-> <<c>> \o rest.captures, next |-> rest.next]

\* -?P(?:(\d+)Y)?(?:(\d+)M)?(?:(\d+)W)?(?:(\d+)D)? as a prefix of s from
\* position 1: where the match ends and what it captured
PeriodPrefix(s) ==
    LET i == IF Len(s) >= 1 /\ s[1] = "-" THEN 2 ELSE 1
    IN  IF i <= Len(s) /\ s[i] = "P"
        THEN LET ch == ComponentChain(s, i + 1, <<"Y", "M", "W", "D">>)
             IN  [matched |-> TRUE, captures |-> ch.captures, end |-> ch.next]
        ELSE [matched |-> FALSE, captures |-> <<>>, end |-> 1]

\* T(?:(\d+)H)?(?:(\d+)M)?(?:(\d+)S)? as a prefix of s from position i
TimePrefix(s, i) ==
    IF i <= Len(s) /\ s[i] = "T"
    THEN LET ch == ComponentChain(s, i + 1, <<"H", "M", "S">>)
         IN  [matched |-> TRUE, captures |-> ch.captures, end |-> ch.next]
    ELSE [matched |-> FALSE, captures |-> <<>>, end |-> i]

\* std::stoi of a string of digits: fits int, or std::out_of_range
StoiFits(ds) == NatLeq(DigitsValue(ds), IntMax)

\* the run of `if (match[k].matched) totalDuration += constant * std::stoi(...)`
RECURSIVE AddComponents(_, _, _)
AddComponents(captures, constants, totalDuration) ==
    IF captures = <<>> THEN Value(totalDuration)
    ELSE IF ~Head(captures).matched
    THEN AddComponents(Tail(captures), Tail(constants), totalDuration)
    ELSE IF ~StoiFits(Head(captures).str) THEN Exception("std::out_of_range")
    ELSE AddComponents(Tail(captures), Tail(constants),
             DurAdd(totalDuration,
                    DurMul(Head(constants), FALSE, DigitsValue(Head(captures).str))))

ParseISO8601DurationPeriod(period) ==
    IF period = <<>> THEN Value(ZeroDuration)
    ELSE LET m == PeriodPrefix(period)
         IN  IF ~(m.matched /\ m.end = Len(period) + 1)
             THEN Error("eInvalidArgument", "invalid ISO8601 duration format")
             ELSE AddComponents(m.captures, <<cYear, cMonth, cWeek, cDay>>, ZeroDuration)

ParseISO8601DurationTime(timeStr) ==
    IF timeStr = <<>> THEN Value(ZeroDuration)
    ELSE LET m == TimePrefix(timeStr, 1)
         IN  IF ~(m.matched /\ m.end = Len(timeStr) + 1)
             THEN Error("eInvalidArgument", "invalid ISO8601 duration format")
             ELSE AddComponents(m.captures, <<cHours, cMinutes, cSeconds>>, ZeroDuration)

\* the pattern taken as a prefix of the string instead of the whole string
\* (a faulty variant, against which C12 is tested)
ISO8601MatchPrefix(duration) ==
    LET p == PeriodPrefix(duration)
        pEnd == IF p.matched THEN p.end ELSE 1
        t == TimePrefix(duration, pEnd)
        tEnd == IF t.matched THEN t.end ELSE pEnd
    IN  [matched |-> p.matched \/ t.matched,
         period |-> SubSeq(duration, 1, pEnd - 1),
         timeStr |-> SubSeq(duration, pEnd, tEnd - 1)]

\* ^(-?P...)?(T...)?$ on the whole string: the two captured substrings
ISO8601Match(duration) ==
    LET p == PeriodPrefix(duration)
        pEnd == IF p.matched THEN p.end ELSE 1
        t == TimePrefix(duration, pEnd)
        tEnd == IF t.matched THEN t.end ELSE pEnd
    IN  [matched |-> tEnd = Len(duration) + 1,
         period |-> SubSeq(duration, 1, pEnd - 1),
         timeStr |-> SubSeq(duration, pEnd, tEnd - 1)]

ParseISO8601Duration(duration) ==
    LET match == ISO8601Match(duration)
        period == ParseISO8601DurationPeriod(match.period)
        timePart == ParseISO8601DurationTime(match.timeStr)
        totalDuration == DurAdd(period.dur, timePart.dur)
    IN  IF ~match.matched
        THEN Error("eInvalidArgument", "invalid ISO8601 duration format")
        ELSE IF period.kind # "value" THEN period
        ELSE IF timePart.kind # "value" THEN timePart
        ELSE IF duration[1] = "-" THEN Value(DurNeg(totalDuration))
        ELSE Value(totalDuration)

(***************************************************************************)
(* ParseDuration                                                           *)
(***************************************************************************)
\* durationStr.find("-P") != std::string::npos
ContainsMinusP(s) == \E i \in 1..Len(s) : HasPrefixAt(s, i, <<"-", "P">>)

\* regex_match with floatPattern ^-?\d*(\.\d+)?$
MatchesFloatPattern(s) ==
    LET i == IF Len(s) >= 1 /\ s[1] = "-" THEN 2 ELSE 1
        q == DigitRunEnd(s, i)
    IN  \/ q = Len(s) + 1
        \/ /\ q <= Len(s) /\ s[q] = "."
           /\ DigitRunEnd(s, q + 1) > q + 1
           /\ DigitRunEnd(s, q + 1) = Len(s) + 1

\* regex_match with durationStringPattern (\d+(ns|us|µs|ms|s|m|h|d|w|y))+$
RECURSIVE MatchesComponentsFrom(_, _)
MatchesComponentsFrom(s, i) ==
    /\ i <= Len(s)
    /\ IsDigit(s[i])
    /\ \E q \in (i + 1)..DigitRunEnd(s, i) :
         \E u \in UnitKeys :
            /\ HasPrefixAt(s, q, u)
            /\ \/ q + Len(u) = Len(s) + 1
               \/ MatchesComponentsFrom(s, q + Len(u))

MatchesDurationStringPattern(s) == MatchesComponentsFrom(s, 1)

\* std::stod on a string that matches floatPattern: sign, integer digits and
\* fraction digits; without any digit std::stod throws std::invalid_argument.
Stod(s) ==
    LET neg == Len(s) >= 1 /\ s[1] = "-"
        i == IF neg THEN 2 ELSE 1
        q == DigitRunEnd(s, i)
    IN  [converted |-> \E k \in 1..Len(s) : IsDigit(s[k]),
         neg |-> neg,
         int |-> SubSeq(s, i, q - 1),
         frac |-> SubSeq(s, q + 1, Len(s))]

\* the fraction 0.frac is at least one half
FracAtLeastHalf(frac) == frac # <<>> /\ DigitVal(frac[1]) >= 5

\* value + 0.5 with the fraction dropped (truncation toward zero), exact for
\* the decimal given.  The inputs have few fraction digits and, within the
\* int range, at most ten integer digits, which is too coarse for the
\* rounding of a double to move a value across a whole number.
AddHalfAndTruncate(d) ==
    LET whole == DigitsValue(d.int)
        isZero == whole = <<>> /\ \A k \in 1..Len(d.frac) : d.frac[k] = "0"
    IN  IF ~d.neg \/ isZero
        THEN [neg |-> FALSE,
              mag |-> IF FracAtLeastHalf(d.frac) THEN NatAdd(whole, NatOf(1)) ELSE whole]
        ELSE IF FracAtLeastHalf(d.frac) THEN [neg |-> whole # <<>>, mag |-> whole]
        ELSE IF whole = <<>> THEN [neg |-> FALSE, mag |-> <<>>]
        ELSE [neg |-> whole # NatOf(1), mag |-> NatSub(whole, NatOf(1))]

\* static_cast<int>(x) is defined when the truncated value fits an int
FitsInt(n) == IF n.neg THEN NatLeq(n.mag, IntMinMag) ELSE NatLeq(n.mag, IntMax)

\* Time::cSeconds * static_cast<int>(std::stod(durationStr) + 0.5)
ParseFloatSeconds(durationStr) ==
    LET d == Stod(durationStr)
        n == AddHalfAndTruncate(d)
    IN  IF ~d.converted THEN Exception("std::invalid_argument")
        ELSE IF ~FitsInt(n)
        THEN [kind |-> "undefined", dur |-> ZeroDuration, err |-> "eNone",
              what |-> "float-to-int conversion out of range"]
        ELSE Value(DurMul(cSeconds, n.neg, n.mag))

\* the dispatch without the test for the empty string: the empty string
\* goes on to the grammars (a faulty variant, against which C11 is tested)
ParseDurationWithoutEmptyCheck(durationStr) ==
    IF (durationStr # <<>> /\ durationStr[1] = "P") \/ ContainsMinusP(durationStr)
    THEN ParseISO8601Duration(durationStr)
    ELSE IF MatchesFloatPattern(durationStr) THEN ParseFloatSeconds(durationStr)
    ELSE IF MatchesDurationStringPattern(durationStr)
    THEN ParseStringDuration(durationStr)
    ELSE Error("eInvalidArgument", "invalid duration string")

ParseDuration(durationStr) ==
    IF durationStr = <<>> THEN Error("eFailed", "empty duration string")
    ELSE IF durationStr[1] = "P" \/ ContainsMinusP(durationStr)
    THEN ParseISO8601Duration(durationStr)
    ELSE IF MatchesFloatPattern(durationStr) THEN ParseFloatSeconds(durationStr)
    ELSE IF MatchesDurationStringPattern(durationStr)
    THEN ParseStringDuration(durationStr)
    ELSE Error("eInvalidArgument", "invalid duration string")

\* What the build can make of a call whose behaviour the language leaves
\* undefined: an out-of-range float-to-int conversion yields INT_MIN or
\* INT_MAX; a signed overflow yields the wrapped value (kept here as the
\* exact value with `overflowed` set) or a trap.
Outcomes(r) ==
    IF r.kind = "undefined"
    THEN {Value(DurMul(cSeconds, TRUE, IntMinMag)), Value(DurMul(cSeconds, FALSE, IntMax))}
    ELSE IF r.kind = "value" /\ r.dur.overflowed
    THEN {r, [kind |-> "trap", dur |-> ZeroDuration, err |-> "eNone",
              what |-> "signed integer overflow"]}
    ELSE {r}

(***************************************************************************)
(* Calendar primitives of the C library that the timestamp functions call. *)
(* A struct tm is a record with the fields of struct tm (tm_year counted   *)
(* from 1900, tm_mon from 0).  Time values are seconds since the epoch and *)
(* stay within the range of a 32-bit count (1901..2038).                   *)
(***************************************************************************)
\* days from 1970-01-01 to the civil date y-m-d (proleptic Gregorian)
DaysFromCivil(y, m, d) ==
    LET yy == IF m <= 2 THEN y - 1 ELSE y
        era == yy \div 400
        yoe == yy - era * 400
        doy == (153 * (IF m > 2 THEN m - 3 ELSE m + 9) + 2) \div 5 + d - 1
        doe == yoe * 365 + yoe \div 4 - yoe \div 100 + doy
    IN  era * 146097 + doe - 719468

\* the civil date of a day number
CivilFromDays(z) ==
    LET zz == z + 719468
        era == zz \div 146097
        doe == zz - era * 146097
        yoe == (doe - doe \div 1460 + doe \div 36524 - doe \div 146096) \div 365
        doy == doe - (365 * yoe + yoe \div 4 - yoe \div 100)
        mp == (5 * doy + 2) \div 153
        d == doy - (153 * mp + 2) \div 5 + 1
        m == IF mp < 10 THEN mp + 3 ELSE mp - 9
        y == yoe + era * 400 + (IF m <= 2 THEN 1 ELSE 0)
    IN  [year |-> y, month |-> m, day |-> d]

\* struct tm timeInfo = {}
ZeroTm ==
    [tm_year |-> 0, tm_mon |-> 0, tm_mday |-> 0, tm_hour |-> 0, tm_min |-> 0,
     tm_sec |-> 0, tm_isdst |-> 0]

\* gmtime_r
GmTime(t) ==
    LET c == CivilFromDays(t \div 86400)
        r == t % 86400
    IN  [tm_year |-> c.year - 1900, tm_mon |-> c.month - 1, tm_mday |-> c.day,
         tm_hour |-> r \div 3600, tm_min |-> (r % 3600) \div 60, tm_sec |-> r % 60,
         tm_isdst |-> 0]

\* timegm: the fields read as UTC, days and seconds beyond their range carried
TimeGm(tm) ==
    (DaysFromCivil(tm.tm_year + 1900, tm.tm_mon + 1, 1) + tm.tm_mday - 1) * 86400
    + tm.tm_hour * 3600 + tm.tm_min * 60 + tm.tm_sec

\* A time zone configuration is TZ=UTC, TZ=GMT+k or TZ=GMT-k (a fixed offset:
\* POSIX counts k hours WEST of Greenwich), or the rule-based
\* TZ=CET-1CEST,M3.5.0,M10.5.0/3 with daylight saving time.
FixedZone(k) == [kind |-> "fixed", west |-> k]

DstZone == [kind |-> "CET-1CEST,M3.5.0,M10.5.0/3", west |-> -1]

\* seconds east of Greenwich of the zone's standard time
StdOffset(zone) == -zone.west * 3600

\* the last Sunday of March or October of a year, 01:00 UTC
LastSunday0100(year, month) ==
    LET d == DaysFromCivil(year, month, 31)
    IN  (d - ((d + 4) % 7)) * 86400 + 3600

\* daylight saving time is in effect in the zone at instant t
IsDst(zone, t) ==
    /\ zone.kind # "fixed"
    /\ LET year == CivilFromDays(t \div 86400).year
       IN  LastSunday0100(year, 3) <= t /\ t < LastSunday0100(year, 10)

\* seconds east of Greenwich in effect at instant t
UtcOffset(zone, t) == StdOffset(zone) + (IF IsDst(zone, t) THEN 3600 ELSE 0)

\* localtime_r
LocalTime(t, zone) ==
    [GmTime(t + UtcOffset(zone, t)) EXCEPT !.tm_isdst = IF IsDst(zone, t) THEN 1 ELSE 0]

\* timegm in the place of mktime: the fields read as UTC whatever the zone
\* (a faulty variant, against which the zone shift of C6 is tested)
MkTimeAsTimeGm(tm, zone) == TimeGm(tm)

\* mktime: the fields read as local time.  tm_isdst = 0 tells mktime that
\* the fields are standard time, also where daylight saving time applies.
MkTime(tm, zone) ==
    IF tm.tm_isdst = 0 THEN TimeGm(tm) - StdOffset(zone)
    ELSE TimeGm(tm) - StdOffset(zone) - 3600

\* a non-negative number in decimal, zero-padded to at least `width` digits
RECURSIVE Decimal(_, _)
Decimal(n, width) ==
    IF n < 10 /\ width <= 1 THEN <<DigitChar(n)>>
    ELSE Decimal(n \div 10, width - 1) \o <<DigitChar(n % 10)>>

\* strftime(..., "%Y-%m-%dT%H:%M:%SZ", &timeInfo): %Y is the year in decimal,
\* the other fields are two digits
StrfTime(tm) ==
    Decimal(tm.tm_year + 1900, 1) \o <<"-">> \o Decimal(tm.tm_mon + 1, 2) \o <<"-">>
    \o Decimal(tm.tm_mday, 2) \o <<"T">> \o Decimal(tm.tm_hour, 2) \o <<":">>
    \o Decimal(tm.tm_min, 2) \o <<":">> \o Decimal(tm.tm_sec, 2) \o <<"Z">>

\* strptime's number: at least one and at most n digits, read while the value
\* can still stay within `to`; fails outside from..to
RECURSIVE GetDigits(_, _, _, _, _)
GetDigits(s, pos, val, to, n) ==
    IF n > 0 /\ val * 10 <= to /\ pos <= Len(s) /\ IsDigit(s[pos])
    THEN GetDigits(s, pos + 1, val * 10 + DigitVal(s[pos]), to, n - 1)
    ELSE [val |-> val, next |-> pos]

GetNumber(s, pos, from, to, n) ==
    IF pos > Len(s) \/ ~IsDigit(s[pos]) THEN [ok |-> FALSE, val |-> 0, next |-> pos]
    ELSE LET g == GetDigits(s, pos + 1, DigitVal(s[pos]), to, n - 1)
         IN  [ok |-> g.val >= from /\ g.val <= to, val |-> g.val, next |-> g.next]

Literal(s, pos, c) == pos <= Len(s) /\ s[pos] = c

\* strptime(utcTimeStr, "%Y-%m-%dT%H:%M:%SZ", &timeInfo); text after the Z is
\* left unread
StrpTime(s) ==
    LET y == GetNumber(s, 1, 0, 9999, 4)
        mo == GetNumber(s, y.next + 1, 1, 12, 2)
        d == GetNumber(s, mo.next + 1, 1, 31, 2)
        h == GetNumber(s, d.next + 1, 0, 23, 2)
        mi == GetNumber(s, h.next + 1, 0, 59, 2)
        se == GetNumber(s, mi.next + 1, 0, 61, 2)
    IN  IF /\ y.ok /\ Literal(s, y.next, "-")
           /\ mo.ok /\ Literal(s, mo.next, "-")
           /\ d.ok /\ Literal(s, d.next, "T")
           /\ h.ok /\ Literal(s, h.next, ":")
           /\ mi.ok /\ Literal(s, mi.next, ":")
           /\ se.ok /\ Literal(s, se.next, "Z")
        THEN [ok |-> TRUE,
              tm |-> [ZeroTm EXCEPT !.tm_year = y.val - 1900, !.tm_mon = mo.val - 1,
                                    !.tm_mday = d.val, !.tm_hour = h.val,
                                    !.tm_min = mi.val, !.tm_sec = se.val]]
        ELSE [ok |-> FALSE, tm |-> ZeroTm]

(***************************************************************************)
(* FromUTCString / ToUTCString                                             *)
(***************************************************************************)
FromUTCString(utcTimeStr, zone) ==
    LET p == StrpTime(utcTimeStr)
    IN  IF ~p.ok THEN [time |-> 0, err |-> "eInvalidArgument"]
        ELSE [time |-> MkTime(p.tm, zone), err |-> "eNone"]

\* the conversion without the localtime_r step: the UTC fields of t (a faulty
\* variant, against which the string round trip of C5 is tested)
ToUTCStringWithoutLocalTime(t, zone) ==
    LET str == StrfTime(GmTime(t))
    IN  IF Len(str) = 0 THEN [str |-> <<>>, err |-> "eFailed"]
        ELSE [str |-> str, err |-> "eNone"]

ToUTCString(t, zone) ==
    LET tv_sec == TimeGm(LocalTime(t, zone))
        str == StrfTime(GmTime(tv_sec))
    IN  IF Len(str) = 0 THEN [str |-> <<>>, err |-> "eFailed"]
        ELSE [str |-> str, err |-> "eNone"]

\* Time::GetDate and Time::GetTime as the test reads them: the calendar
\* fields of the value
GetDateTime(t) ==
    LET tm == GmTime(t)
    IN  [year |-> tm.tm_year + 1900, month |-> tm.tm_mon + 1, day |-> tm.tm_mday,
         hour |-> tm.tm_hour, minute |-> tm.tm_min, second |-> tm.tm_sec]

(***************************************************************************)
(* The inputs of ParseDuration.  An input is the concatenation of at most  *)
(* MaxPieces pieces of one alphabet, or of at most MaxTokens tokens        *)
(* <number><unit>, or a string of the standard form with each component    *)
(* absent or present.                                                      *)
(***************************************************************************)
MaxPieces == 3

MaxTokens == 2

\* all sequences of at most n elements of A
SeqsUpTo(A, n) == UNION {[1..k -> A] : k \in 0..n}

\* a sign, a point, digits, fractions, and the nine leading digits of INT_MAX
NumericPieces ==
    {<<"-">>, <<".">>, <<"0">>, <<"1">>, <<"5">>, <<"1", "0">>, <<".", "4">>,
     <<".", "5">>, <<"2", "1", "4", "7", "4", "8", "3", "6", "4">>, <<"7">>,
     <<"8">>}

\* units in both letter cases and bytes that belong to no grammar
CasePieces ==
    {<<"1">>, <<"s">>, <<"m">>, <<"h">>, <<"y">>, <<"S">>, <<"M">>, <<"#">>,
     <<"a">>}

\* digits that reach the ends of the 64-bit range, and units
RangePieces ==
    {
     <<"9", "2", "2", "3", "3", "7", "2", "0", "3", "6", "8", "5", "4", "7", "7", "5", "8", "0">>,
     <<"9", "9">>, <<"7">>, <<"8">>, <<"0">>, <<"n", "s">>, <<"s">>, <<"h">>,
     <<"d">>, <<"y">>}

\* markers and components of the standard form, in range and beyond, and
\* text that does not belong to it
IsoPieces ==
    {<<"-">>, <<"P">>, <<"T">>, <<"1", "Y">>, <<"1", "M">>, <<"1", "D">>,
     <<"1", "S">>, <<"x">>, <<"1", "s">>, <<"3", "0", "0", "Y">>,
     <<"2", "1", "4", "7", "4", "8", "3", "6", "4", "8", "S">>}

Alphabets == {NumericPieces, CasePieces, RangePieces, IsoPieces}

PieceInputs == {Concat(ps) : ps \in UNION {SeqsUpTo(A, MaxPieces) : A \in Alphabets}}

UnitNumbers ==
    {<<"1">>, <<"2", "0">>, <<"3", "0", "0">>}

UnitTokens == {n \o u : n \in UnitNumbers, u \in UnitKeys}

TokenInputs == {Concat(ts) : ts \in SeqsUpTo(UnitTokens, MaxTokens)}

IsoNumbers ==
    {<<"1">>, <<"1", "2">>}

\* a component of the standard form: absent, or a number and its letter
IsoComponent(letter) == {<<>>} \cup {n \o <<letter>> : n \in IsoNumbers}

IsoTimeParts ==
    {<<>>} \cup {<<"T">> \o h \o m \o sec :
                    h \in IsoComponent("H"), m \in IsoComponent("M"),
                    sec \in IsoComponent("S")}

IsoInputs ==
    {sign \o <<"P">> \o y \o m \o w \o d \o t :
        sign \in {<<>>, <<"-">>}, y \in IsoComponent("Y"), m \in IsoComponent("M"),
        w \in IsoComponent("W"), d \in IsoComponent("D"), t \in IsoTimeParts}

DurationInputs == PieceInputs \cup TokenInputs \cup IsoInputs

(***************************************************************************)
(* The inputs of the timestamp functions.                                  *)
(***************************************************************************)
\* TZ=GMT+k and TZ=GMT-k for k up to MaxZoneHours
MaxZoneHours == 2

\* the number of timestamp calls made in a row
MaxCalls == 2

FixedZones == {FixedZone(k) : k \in (-MaxZoneHours)..MaxZoneHours}

Zones == FixedZones \cup {DstZone}

\* 1970-01-01, 2023-03-01, 2024-01-01, 2024-02-29, 2024-03-31T01:00 (the
\* change to daylight saving time), 2024-07-01T12:00 and 2024-10-27T01:00
\* (the change back), all UTC, and instants around them
Instants ==
    {b + d : b \in {0, 1677628800, 1704067200, 1709164800, 1711846800,
                    1719835200, 1729990800},
             d \in {-86400, -3600, -1, 0, 1, 3600, 86399}}

\* calendar fields written as YYYY-MM-DDTHH:MM:SSZ
WellFormed(f) ==
    Decimal(f.year, 4) \o <<"-">> \o Decimal(f.month, 2) \o <<"-">>
    \o Decimal(f.day, 2) \o <<"T">> \o Decimal(f.hour, 2) \o <<":">>
    \o Decimal(f.minute, 2) \o <<":">> \o Decimal(f.second, 2) \o <<"Z">>

\* calendar fields, some of them out of range
FieldChoices ==
    [year : {1970, 2023, 2024}, month : {1, 2, 3, 7, 12, 13},
     day : {1, 28, 29, 31, 32}, hour : {0, 1, 23, 24}, minute : {0, 59},
     second : {0, 59, 60}]

DaysInMonth(y, m) ==
    IF m = 2 THEN (IF y % 4 = 0 /\ (y % 100 # 0 \/ y % 400 = 0) THEN 29 ELSE 28)
    ELSE IF m \in {4, 6, 9, 11} THEN 30 ELSE 31

\* the fields name a date and a time of day that exist
InRange(f) ==
    /\ f.month \in 1..12
    /\ f.day \in 1..DaysInMonth(f.year, f.month)
    /\ f.hour \in 0..23 /\ f.minute \in 0..59 /\ f.second \in 0..59

NoFields == [year |-> 0, month |-> 0, day |-> 0, hour |-> 0, minute |-> 0, second |-> 0]

(***************************************************************************)
(* The state machine: one call of ParseDuration on an input, or a run of   *)
(* FromUTCString and ToUTCString calls that feed each other.               *)
(***************************************************************************)
NoOrigin == [kind |-> "none", time |-> 0, fields |-> NoFields, str |-> <<>>]

DurationIdle ==
    /\ tz = FixedZone(0) /\ time = 0 /\ utcStr = <<>> /\ tsErr = "eNone"
    /\ origin = NoOrigin /\ calls = <<>>

InitDuration ==
    /\ op = "none"
    /\ input \in DurationInputs
    /\ result = NoResult
    /\ DurationIdle

InitTimestamp ==
    /\ op = "none"
    /\ input = <<>>
    /\ result = NoResult
    /\ tz \in Zones
    /\ tsErr = "eNone"
    /\ calls = <<>>
    /\ \/ \E t \in Instants :
            /\ origin = [kind |-> "time", time |-> t, fields |-> NoFields, str |-> <<>>]
            /\ time = t
            /\ utcStr = <<>>
       \/ \E f \in FieldChoices :
            /\ origin = [kind |-> "string", time |-> 0, fields |-> f, str |-> WellFormed(f)]
            /\ time = 0
            /\ utcStr = WellFormed(f)

Init == InitDuration \/ InitTimestamp

\* a caller passes the input to ParseDuration
CallParseDuration ==
    /\ op = "none"
    /\ origin.kind = "none"
    /\ result' \in Outcomes(ParseDuration(input))
    /\ op' = "ParseDuration"
    /\ UNCHANGED <<input, tz, time, utcStr, tsErr, origin, calls>>

\* a Time value is at hand: the scenario's own, or one FromUTCString returned
HasTime ==
    \/ calls = <<>> /\ origin.kind = "time"
    \/ calls # <<>> /\ calls[Len(calls)] = "FromUTCString" /\ tsErr = "eNone"

\* a string is at hand: the scenario's own, or one ToUTCString returned
HasString ==
    \/ calls = <<>> /\ origin.kind = "string"
    \/ calls # <<>> /\ calls[Len(calls)] = "ToUTCString" /\ tsErr = "eNone"

CallToUTCString ==
    /\ Len(calls) < MaxCalls
    /\ HasTime
    /\ LET r == ToUTCString(time, tz)
       IN  utcStr' = r.str /\ tsErr' = r.err
    /\ op' = "ToUTCString"
    /\ calls' = Append(calls, "ToUTCString")
    /\ UNCHANGED <<input, result, tz, time, origin>>

CallFromUTCString ==
    /\ Len(calls) < MaxCalls
    /\ HasString
    /\ LET r == FromUTCString(utcStr, tz)
       IN  time' = r.time /\ tsErr' = r.err
    /\ op' = "FromUTCString"
    /\ calls' = Append(calls, "FromUTCString")
    /\ UNCHANGED <<input, result, tz, utcStr, origin>>

NextDuration == CallParseDuration

NextTimestamp == CallToUTCString \/ CallFromUTCString

Next == CallParseDuration \/ CallToUTCString \/ CallFromUTCString

Spec == Init /\ [][Next]_vars

SpecDuration == InitDuration /\ [][NextDuration]_vars

SpecTimestamp == InitTimestamp /\ [][NextTimestamp]_vars

(***************************************************************************)
(* Vocabulary of the properties.                                           *)
(***************************************************************************)
Returned == op = "ParseDuration"

\* the input has the standard form [-]P[nY][nM][nW][nD][T[nH][nM][nS]]
IsStandardForm(s) ==
    /\ s # <<>>
    /\ s[1] = "P" \/ HasPrefixAt(s, 1, <<"-", "P">>)
    /\ ISO8601Match(s).matched

\* the input is an optionally signed decimal number
IsDecimalNumber(s) ==
    /\ s # <<>>
    /\ MatchesFloatPattern(s)
    /\ \E k \in 1..Len(s) : IsDigit(s[k])

\* the input is made only of tokens <digits><unit>
IsTokenString(s) == s # <<>> /\ MatchesDurationStringPattern(s)

\* an exact duration that fits the 64-bit range
Exact(neg, mag) == [neg |-> neg /\ mag # <<>>, mag |-> mag, overflowed |-> FALSE]

\* the sum of integer x unit over a sequence of tokens
RECURSIVE TokenSum(_)
TokenSum(tokens) ==
    IF tokens = <<>> THEN <<>>
    ELSE NatAdd(NatMul(units(Head(tokens).unit).mag, DigitsValue(Head(tokens).number)),
                TokenSum(Tail(tokens)))

\* the sum of integer x constant over the components that are present
RECURSIVE ComponentSum(_, _)
ComponentSum(captures, constants) ==
    IF captures = <<>> THEN <<>>
    ELSE NatAdd(IF Head(captures).matched
                THEN NatMul(Head(constants).mag, DigitsValue(Head(captures).str))
                ELSE <<>>,
                ComponentSum(Tail(captures), Tail(constants)))

\* the magnitude a string of the standard form denotes
StandardFormSum(s) ==
    LET p == PeriodPrefix(s)
        t == TimePrefix(s, p.end)
    IN  NatAdd(ComponentSum(p.captures, <<cYear, cMonth, cWeek, cDay>>),
               IF t.matched
               THEN ComponentSum(t.captures, <<cHours, cMinutes, cSeconds>>)
               ELSE <<>>)

toupper(c) ==
    IF \E i \in 1..26 : LowerCaseLetters[i] = c
    THEN UpperCaseLetters[CHOOSE i \in 1..26 : LowerCaseLetters[i] = c]
    ELSE c

\* the input with any of its letters changed to upper case
CaseVariants(s) ==
    {[i \in 1..Len(s) |-> IF i \in up THEN toupper(s[i]) ELSE s[i]] :
        up \in SUBSET {i \in 1..Len(s) : toupper(s[i]) # s[i]}}

\* the strings made of the same tokens in another order
TokenPermutations(s) ==
    LET tokens == Components(s, 1)
    IN  {Concat([i \in 1..Len(tokens) |-> tokens[p[i]].number \o tokens[p[i]].unit]) :
            p \in Permutations(1..Len(tokens))}

\* the epoch of calendar fields read as UTC
EpochOfUTC(f) ==
    DaysFromCivil(f.year, f.month, f.day) * 86400
    + f.hour * 3600 + f.minute * 60 + f.second

\* the string 2024-01-01T00:00:00Z of the test
TestString ==
    <<"2", "0", "2", "4", "-", "0", "1", "-", "0", "1", "T",
      "0", "0", ":", "0", "0", ":", "0", "0", "Z">>

(***************************************************************************)
(* C1: ToUTCString does not depend on the time zone of the process: for an *)
(* instant t it returns the same string under every zone configuration,    *)
(* and the string shows the UTC calendar fields of t.                      *)
(***************************************************************************)
C1_FormatIsZoneIndependent ==
    (calls = <<"ToUTCString">> /\ origin.kind = "time") =>
        /\ tsErr = "eNone"
        /\ \A z \in Zones : ToUTCString(origin.time, z).str = utcStr
        /\ utcStr = WellFormed(GetDateTime(origin.time))

(***************************************************************************)
(* C2: no operation throws: ParseDuration, FromUTCString and ToUTCString   *)
(* always end by returning a value or an error value, never by an          *)
(* exception or another out-of-band exit.                                  *)
(***************************************************************************)
C2_NoOperationThrows ==
    /\ Returned => result.kind \in {"value", "error"}
    /\ op \in {"FromUTCString", "ToUTCString"} =>
          tsErr \in {"eNone", "eInvalidArgument", "eFailed"}

(***************************************************************************)
(* C3: unit symbols are case-insensitive: when a unit-suffixed input in    *)
(* lower case is accepted, the same input with any of its unit letters in  *)
(* upper case is accepted and gives the identical duration.                *)
(***************************************************************************)
C3_UnitsAreCaseInsensitive ==
    (Returned /\ IsTokenString(input) /\ result.kind = "value") =>
        \A v \in CaseVariants(input) : ParseDuration(v) = ParseDuration(input)

(***************************************************************************)
(* C4: timestamp value round trip: for every instant t and every zone in   *)
(* force during the round trip, FromUTCString(ToUTCString(t)) succeeds and *)
(* returns t.                                                              *)
(***************************************************************************)
C4_ValueRoundTrip ==
    (calls = <<"ToUTCString", "FromUTCString">> /\ origin.kind = "time") =>
        tsErr = "eNone" /\ time = origin.time

C6_ParseShiftsByZoneHours ==
    (calls = <<"FromUTCString">> /\ origin.kind = "string" /\ tz \in FixedZones) =>
        /\ InRange(origin.fields) => tsErr = "eNone"
        /\ tsErr = "eNone" =>
              /\ time = EpochOfUTC(origin.fields) + tz.west * 3600
              /\ GetDateTime(time) =
                    GetDateTime(EpochOfUTC(origin.fields) + tz.west * 3600)
        /\ (origin.str = TestString /\ tz = FixedZone(1)) =>
              GetDateTime(time) = [year |-> 2024, month |-> 1, day |-> 1,
                                   hour |-> 1, minute |-> 0, second |-> 0]
        /\ (origin.str = TestString /\ tz = FixedZone(-1)) =>
              GetDateTime(time) = [year |-> 2023, month |-> 12, day |-> 31,
                                   hour |-> 23, minute |-> 0, second |-> 0]

C6_Witness ==
    /\ calls = <<"FromUTCString">>
    /\ origin.str = TestString
    /\ tz = FixedZone(-1)
    /\ tsErr = "eNone"
    /\ time = 1704067200 - 3600

(***************************************************************************)
(* C7: numeric-seconds grammar: for every input that is an optionally      *)
(* signed decimal number with value v, ParseDuration returns               *)
(* trunc_toward_zero(v + 0.5) whole seconds.                               *)
(***************************************************************************)
C7_NumericSeconds ==
    (Returned /\ IsDecimalNumber(input)) =>
        LET n == AddHalfAndTruncate(Stod(input))
        IN  result = Value(Exact(n.neg, NatMul(cSeconds.mag, n.mag)))

(***************************************************************************)
(* C8: unit-suffixed grammar: for every input made only of tokens          *)
(* <digits><unit>, ParseDuration returns the sum of integer x unit over    *)
(* the tokens; any permutation of the tokens gives the same duration, and  *)
(* a unit that occurs twice contributes twice.                             *)
(***************************************************************************)
C8_UnitTokensSum ==
    (Returned /\ IsTokenString(input)) =>
        /\ result = Value(Exact(FALSE, TokenSum(Components(input, 1))))
        /\ \A v \in TokenPermutations(input) : ParseDuration(v) = ParseDuration(input)

(***************************************************************************)
(* C9: standard-duration grammar: for every input of the form              *)
(* [-]P[nY][nM][nW][nD][T[nH][nM][nS]], ParseDuration returns the sum of   *)
(* each present component's integer times its constant, negated once by a *)
(* leading '-': Parse("-" + s) = -Parse(s).                                *)
(***************************************************************************)
C9_StandardDurationValue ==
    (Returned /\ IsStandardForm(input)) =>
        /\ result = Value(Exact(input[1] = "-", StandardFormSum(input)))
        /\ input[1] = "P" =>
              ParseDuration(<<"-">> \o input) = Value(DurNeg(result.dur))

(***************************************************************************)
(* C10: every non-empty input that matches none of the three grammars      *)
(* makes ParseDuration return an error of kind InvalidArgument, never a    *)
(* value and never kind Failed.                                            *)
(***************************************************************************)
C10_NoGrammarIsInvalidArgument ==
    (Returned /\ input # <<>> /\ ~IsStandardForm(input)
       /\ ~IsDecimalNumber(input) /\ ~IsTokenString(input)) =>
        result.kind = "error" /\ result.err = "eInvalidArgument"

(***************************************************************************)
(* C11: ParseDuration on the empty string returns an error of kind Failed  *)
(* before any grammar is tried, and no other input makes ParseDuration     *)
(* return kind Failed.                                                     *)
(***************************************************************************)
C11_FailedIffEmpty ==
    Returned =>
        /\ input = <<>> => result = Error("eFailed", "empty duration string")
        /\ (result.kind = "error" /\ result.err = "eFailed") => input = <<>>

C11_Witness ==
    /\ Returned
    /\ input = <<>>
    /\ result.kind = "error"
    /\ result.err = "eFailed"

\* the input is routed to the standard-duration grammar
RoutedToStandardForm(s) == s # <<>> /\ (s[1] = "P" \/ ContainsMinusP(s))

\* the positions where an optional component <digits><letter> that starts at
\* a position of `from` can end, the positions of `from` included
AfterOptional(s, from, letter) ==
    from \cup {q + 1 : q \in {q \in 1..Len(s) :
                                /\ s[q] = letter
                                /\ \E i \in from : i < q /\ \A k \in i..(q - 1) : IsDigit(s[k])}}

\* the whole of s is [-]P[nY][nM][nW][nD][T[nH][nM][nS]], said as a grammar
HasStandardShape(s) ==
    LET start == IF s # <<>> /\ s[1] = "-" THEN 2 ELSE 1
        afterP == IF start <= Len(s) /\ s[start] = "P" THEN {start + 1} ELSE {}
        afterD == AfterOptional(s, AfterOptional(s, AfterOptional(s,
                      AfterOptional(s, afterP, "Y"), "M"), "W"), "D")
        afterT == {i + 1 : i \in {i \in afterD : i <= Len(s) /\ s[i] = "T"}}
        afterS == AfterOptional(s, AfterOptional(s,
                      AfterOptional(s, afterT, "H"), "M"), "S")
    IN  Len(s) + 1 \in afterD \cup afterS

(***************************************************************************)
(* C12: every input routed to the standard-duration grammar (it starts     *)
(* with 'P' or contains "-P") that is not entirely of the form             *)
(* [-]P[nY][nM][nW][nD][T[nH][nM][nS]] fails with InvalidArgument:         *)
(* components out of order, a repeated component, an unknown marker,       *)
(* leading or trailing extra characters; a valid prefix followed by extra  *)
(* text is never accepted.                                                 *)
(***************************************************************************)
C12_MalformedStandardFormRejected ==
    (Returned /\ RoutedToStandardForm(input) /\ ~HasStandardShape(input)) =>
        result = Error("eInvalidArgument", "invalid ISO8601 duration format")

C12_Witness ==
    /\ Returned
    /\ input = <<"P", "1", "Y", "x">>
    /\ result.kind = "error"
    /\ result.err = "eInvalidArgument"

\* s is prefix, a non-empty run of digits, suffix
IsNumberBetween(s, prefix, suffix) ==
    /\ Len(s) > Len(prefix) + Len(suffix)
    /\ HasPrefixAt(s, 1, prefix)
    /\ HasPrefixAt(s, Len(s) - Len(suffix) + 1, suffix)
    /\ \A k \in (Len(prefix) + 1)..(Len(s) - Len(suffix)) : IsDigit(s[k])

\* the number of such a string
NumberBetween(s, prefix, suffix) ==
    DigitsValue(SubSeq(s, Len(prefix) + 1, Len(s) - Len(suffix)))

\* n x constant, when the product fits the range of a Duration
FitsDuration(mag) == NatLeq(mag, Int64Max)

(***************************************************************************)
(* C13: the letter M/m is told apart by its position in the grammar:       *)
(* "P<n>M" is n months, "PT<n>M" is n minutes, "P1MT1M" is one month plus  *)
(* one minute, the unit-suffixed "<n>m" is n minutes, and no unit-suffixed *)
(* input gets a contribution from the month constant.  (Stated for the n   *)
(* whose product with the constant is inside the range of a Duration.)     *)
(***************************************************************************)
C13_MonthAndMinuteByPosition ==
    Returned =>
        /\ IsNumberBetween(input, <<"P">>, <<"M">>) =>
              LET months == NatMul(cMonth.mag, NumberBetween(input, <<"P">>, <<"M">>))
              IN  FitsDuration(months) => result = Value(Exact(FALSE, months))
        /\ IsNumberBetween(input, <<"P", "T">>, <<"M">>) =>
              LET minutes == NatMul(cMinutes.mag, NumberBetween(input, <<"P", "T">>, <<"M">>))
              IN  FitsDuration(minutes) => result = Value(Exact(FALSE, minutes))
        /\ input = <<"P", "1", "M", "T", "1", "M">> =>
              result = Value(Exact(FALSE, NatAdd(cMonth.mag, cMinutes.mag)))
        /\ IsNumberBetween(input, <<>>, <<"m">>) =>
              LET minutes == NatMul(cMinutes.mag, NumberBetween(input, <<>>, <<"m">>))
              IN  FitsDuration(minutes) => result = Value(Exact(FALSE, minutes))
        /\ IsTokenString(input) =>
              LET tokens == Components(input, 1)
              IN  /\ \A k \in 1..Len(tokens) : units(tokens[k].unit) # cMonth
                  /\ (result.kind = "value" /\ ~result.dur.overflowed) =>
                        result.dur = Exact(FALSE, TokenSum(tokens))

C13_Witness ==
    /\ Returned
    /\ input = <<"P", "1", "M", "T", "1", "M">>
    /\ result = Value(Exact(FALSE, NatAdd(cMonth.mag, cMinutes.mag)))
    /\ ParseDuration(<<"1", "m">>) = Value(cMinutes)
    /\ ParseDuration(<<"P", "1", "M">>) = Value(cMonth)

\* the text of the tokens, one after the other
TokenText(tokens) ==
    Concat([k \in 1..Len(tokens) |-> tokens[k].number \o tokens[k].unit])

(***************************************************************************)
(* C14: for every string that dispatch rule 4 accepts (a full match of one *)
(* or more <digits><unit> tokens) the iteration of ParseStringDuration     *)
(* yields tokens whose concatenation is exactly the input, no character    *)
(* skipped ("1ms" is one token with unit ms), and every unit it looks up   *)
(* is a key of the unit table, so the lookup never fails.                  *)
(***************************************************************************)
C14_TokensCoverInput ==
    (Returned /\ ~RoutedToStandardForm(input) /\ ~MatchesFloatPattern(input)
       /\ MatchesDurationStringPattern(input)) =>
        LET tokens == Components(input, 1)
        IN  /\ tokens # <<>>
            /\ TokenText(tokens) = input
            /\ \A k \in 1..Len(tokens) : ToLowerString(tokens[k].unit) \in UnitKeys
            /\ result.kind = "exception" =>
                  \E k \in 1..Len(tokens) : ~StollFits(tokens[k].number)

C14_Witness ==
    /\ Returned
    /\ input = <<"1", "m", "s">>
    /\ Components(input, 1) = <<[number |-> <<"1">>, unit |-> <<"m", "s">>]>>
    /\ result = Value(cMilliseconds)

\* some token's integer, or its product with the unit, or the sum up to it
\* is outside the range of a Duration
LeavesRange(tokens) ==
    \E k \in 1..Len(tokens) :
        \/ ~FitsDuration(DigitsValue(tokens[k].number))
        \/ ~FitsDuration(NatMul(units(tokens[k].unit).mag, DigitsValue(tokens[k].number)))
        \/ ~FitsDuration(TokenSum(SubSeq(tokens, 1, k)))

\* the input is an optionally signed run of digits
IsIntegerLiteral(s) ==
    \/ IsNumberBetween(s, <<>>, <<>>)
    \/ IsNumberBetween(s, <<"-">>, <<>>)

(***************************************************************************)
(* C15: a unit-suffixed input with a token whose integer, or whose product *)
(* integer x unit, or whose running sum does not fit the signed 64-bit     *)
(* nanosecond range makes ParseDuration fail with an error; it never       *)
(* returns a wrapped or otherwise wrong duration as a success.             *)
(***************************************************************************)
C15_OutOfRangeFails ==
    (Returned /\ IsTokenString(input) /\ LeavesRange(Components(input, 1))) =>
        result.kind = "error"

(***************************************************************************)
(* C16: for every input that is an optionally signed integer literal N     *)
(* without a fraction ("10", "0", "-3"), ParseDuration returns exactly N   *)
(* seconds.                                                                *)
(***************************************************************************)
C16_IntegerLiteralIsSeconds ==
    (Returned /\ IsIntegerLiteral(input)) =>
        LET neg == input[1] = "-"
            N == NumberBetween(input, IF neg THEN <<"-">> ELSE <<>>, <<>>)
        IN  result = Value(Exact(neg, NatMul(cSeconds.mag, N)))

====
